---- MODULE Spec2Model ----
(***************************************************************************)
(* The Stream Handler Pool of node/src/stream_handler_pool.rs: the pool    *)
(* actor with its mailbox and writer map, one reader thread per added      *)
(* stream (StreamReaderReal), and the writers the pool calls               *)
(* (StreamWriterReal).  The supervisor, the streams' I/O results and the   *)
(* dispatcher's willingness to accept a message are the environment.       *)
(***************************************************************************)
EXTENDS Integers, Sequences, FiniteSets, TLC

(***************************************************************************)
(* Bounds of the model.                                                    *)
(***************************************************************************)
\* number of AddStreamMsg the supervisor may send (stream objects 1..MaxStreams)
MaxStreams == 2
\* Spec: number of messages the supervisor may send to the pool in one run,
\* and number of read() calls that return in one run, over all readers
MaxSends == 4
MaxReads == 1
\* ReaderSpec: the same two numbers, for few messages and many reads
ReaderSends == 2
ReaderReads == 3
\* PoolSpec: the number of messages of the supervisor, with the reads of Spec
PoolSends == 3

\* sub_lib::utils::NODE_MAILBOX_CAPACITY, the capacity the pool's mailbox is
\* given at bind time
NODE_MAILBOX_CAPACITY == 2

(***************************************************************************)
(* Values.                                                                 *)
(***************************************************************************)
Streams == 1 .. MaxStreams
\* peer socket addresses (StreamKey)
Addrs == {"a1", "a2"}
OriginPorts == {"None", "Some8081"}
\* lengths of the discriminator_factories vector of an AddStreamMsg
FactoryCounts == {0, 1}
\* payloads of TransmitDataMsg.data
TransmitPayloads == {<<18, 52>>, <<7>>}
\* what one successful read() with length > 0 can put in the buffer; byte 0
\* ends a frame
ReadPayloads == {<<1>>, <<2, 0, 1, 0>>}

\* std::io::ErrorKind
ErrorKinds ==
    {"NotFound", "PermissionDenied", "ConnectionRefused", "ConnectionReset",
     "ConnectionAborted", "NotConnected", "AddrInUse", "AddrNotAvailable",
     "BrokenPipe", "AlreadyExists", "WouldBlock", "InvalidInput",
     "InvalidData", "TimedOut", "WriteZero", "Interrupted", "Other",
     "UnexpectedEof"}

\* a classifier that leaves TimedOut to the timeouts
indicates_dead_streamButTimedOut(kind) ==
    kind \in {"BrokenPipe", "ConnectionRefused", "ConnectionReset",
              "ConnectionAborted"}

\* sub_lib::utils::indicates_dead_stream
indicates_dead_stream(kind) ==
    kind \in {"BrokenPipe", "ConnectionRefused", "ConnectionReset",
              "ConnectionAborted", "TimedOut"}

\* sub_lib::utils::indicates_timeout
indicates_timeout(kind) ==
    kind \in {"WouldBlock", "TimedOut"}

\* results of TcpStreamWrapper::read
ReadResults ==
    {[ok |-> TRUE, data |-> <<>>]}
    \cup {[ok |-> TRUE, data |-> d] : d \in ReadPayloads}
    \cup {[ok |-> FALSE, kind |-> k] : k \in ErrorKinds}

\* results of TcpStreamWrapper::write
WriteResults ==
    {[ok |-> TRUE]} \cup {[ok |-> FALSE, kind |-> k] : k \in ErrorKinds}

NoMsg == [type |-> "None"]

VARIABLES
    \* StreamHandlerPool
    stream_writers,   \* HashMap<SocketAddr, Box<StreamWriter>>: addr -> stream
    bound,            \* dispatcher_subs and self_subs are Some
    poolPanicked,     \* a handler of the pool has panicked
    mailbox,          \* the pool actor's mailbox
    current,          \* the message the pool has taken from its mailbox
    errorLog,         \* ERROR lines of the pool's and the writers' loggers
    \* streams (TcpStreamWrapper clones), as the recording mocks see them
    writeLog,         \* per stream: operations on the write clone
    readLog,          \* per stream: operations on the read clone
    \* StreamReaderReal, one per spawned thread
    pc,               \* per stream: where the reader thread is
    reader,           \* per stream: stream_key, origin_port, factories
    discBuf,          \* per stream: what discriminators[0] holds
    received,         \* per stream: all bytes read() has delivered
    ibcd,             \* per stream: what the reader sent through ibcd_sub
    removed,          \* per stream: what the reader sent through remove_sub
    warnings,         \* per stream: WARN lines of the reader's logger
    \* supervisor
    sendsLeft,        \* messages the supervisor may still send
    supervisor,       \* "fresh", "early" (one message sent, no
                      \* PoolBindMessage yet) or "bound" (it is sent)
    nextStream,       \* next stream object to hand over in an AddStreamMsg
    readsLeft         \* read() calls that may still return

poolVars == <<stream_writers, bound, poolPanicked, mailbox, current, errorLog, writeLog>>
readerVars == <<readLog, pc, reader, discBuf, received, ibcd, removed, warnings>>
supVars == <<sendsLeft, supervisor, nextStream>>
vars == <<stream_writers, bound, poolPanicked, mailbox, current, errorLog,
          writeLog, readLog, pc, reader, discBuf, received, ibcd, removed,
          warnings,
          sendsLeft, supervisor, nextStream, readsLeft>>

NoReader == [stream_key |-> "none", origin_port |-> "None", factories |-> 0]

\* StreamHandlerPool::new, before any message is sent
Created ==
    /\ stream_writers = <<>>
    /\ bound = FALSE
    /\ poolPanicked = FALSE
    /\ mailbox = <<>>
    /\ current = NoMsg
    /\ errorLog = <<>>
    /\ writeLog = [s \in Streams |-> <<>>]
    /\ readLog = [s \in Streams |-> <<>>]
    /\ pc = [s \in Streams |-> "none"]
    /\ reader = [s \in Streams |-> NoReader]
    /\ discBuf = [s \in Streams |-> <<>>]
    /\ received = [s \in Streams |-> <<>>]
    /\ ibcd = [s \in Streams |-> <<>>]
    /\ removed = [s \in Streams |-> <<>>]
    /\ warnings = [s \in Streams |-> 0]
    /\ supervisor = "fresh"
    /\ nextStream = 1

Init ==
    /\ Created
    /\ sendsLeft = MaxSends
    /\ readsLeft = MaxReads

ReaderInit ==
    /\ Created
    /\ sendsLeft = ReaderSends
    /\ readsLeft = ReaderReads

PoolInit ==
    /\ Created
    /\ sendsLeft = PoolSends
    /\ readsLeft = MaxReads


(***************************************************************************)
(* The pool's mailbox.  Recipient::try_send fails when the pool is gone or *)
(* when the mailbox holds as many messages as the capacity set by          *)
(* Handler<PoolBindMessage>; every call site unwraps the result.           *)
(***************************************************************************)
MailboxAccepts ==
    /\ ~poolPanicked
    /\ (bound => Len(mailbox) < NODE_MAILBOX_CAPACITY)

BindMsg == [type |-> "Bind"]
AddMsg(s, a, p, n) ==
    [type |-> "Add", stream |-> s, peer_addr |-> a, origin_port |-> p,
     discriminator_factories |-> n]
\* by: who sent it ("supervisor", "reader", "writer") and for which stream;
\* the handler does not read it
RemoveMsg(a, who, s) ==
    [type |-> "Remove", socket_addr |-> a, by |-> who, stream |-> s]
\* endpoint: "Key", "Ip" or "Socket"; socket_addr is read for "Socket" only
TransmitMsg(e, a, l, d) ==
    [type |-> "Transmit", endpoint |-> e, socket_addr |-> a, last_data |-> l,
     data |-> d]

Endpoints == {"Key", "Ip", "Socket"}

(***************************************************************************)
(* The supervisor: whoever holds the StreamHandlerPoolSubs.                *)
(***************************************************************************)
SupervisorCanSend == sendsLeft > 0 /\ MailboxAccepts

\* the supervisor's PoolBindMessage is its first or its second message
EarlyEnough == supervisor # "early"
AfterSend == IF supervisor = "fresh" THEN "early" ELSE supervisor


SendBind ==
    /\ SupervisorCanSend
    /\ supervisor # "bound"
    /\ mailbox' = Append(mailbox, BindMsg)
    /\ sendsLeft' = sendsLeft - 1
    /\ supervisor' = "bound"
    /\ UNCHANGED <<stream_writers, bound, poolPanicked, current, errorLog,
                   writeLog, nextStream, readsLeft>>
    /\ UNCHANGED readerVars

SendAdd ==
    /\ SupervisorCanSend
    /\ EarlyEnough
    /\ nextStream <= MaxStreams
    /\ \E a \in Addrs, p \in OriginPorts, n \in FactoryCounts :
          \* the addresses are interchangeable: the first stream's is "a1"
          /\ (nextStream = 1 => a = "a1")
          /\ mailbox' = Append(mailbox, AddMsg(nextStream, a, p, n))
    /\ sendsLeft' = sendsLeft - 1
    /\ nextStream' = nextStream + 1
    /\ supervisor' = AfterSend
    /\ UNCHANGED <<stream_writers, bound, poolPanicked, current, errorLog,
                   writeLog, readsLeft>>
    /\ UNCHANGED readerVars

SendRemove ==
    /\ SupervisorCanSend
    /\ EarlyEnough
    /\ \E a \in Addrs :
          mailbox' = Append(mailbox, RemoveMsg(a, "supervisor", 0))
    /\ sendsLeft' = sendsLeft - 1
    /\ supervisor' = AfterSend
    /\ UNCHANGED <<stream_writers, bound, poolPanicked, current, errorLog,
                   writeLog, nextStream, readsLeft>>
    /\ UNCHANGED readerVars

SendTransmit ==
    /\ SupervisorCanSend
    /\ EarlyEnough
    /\ \E e \in Endpoints, a \in Addrs, l \in BOOLEAN, d \in TransmitPayloads :
          \* the handler reads nothing but the endpoint of a Key or an Ip
          /\ (e # "Socket" => a = "a1" /\ ~l /\ d = <<7>>)
          /\ mailbox' = Append(mailbox, TransmitMsg(e, a, l, d))
    /\ sendsLeft' = sendsLeft - 1
    /\ supervisor' = AfterSend
    /\ UNCHANGED <<stream_writers, bound, poolPanicked, current, errorLog,
                   writeLog, nextStream, readsLeft>>
    /\ UNCHANGED readerVars

(***************************************************************************)
(* The pool actor: one message at a time, in mailbox order.                *)
(***************************************************************************)
\* a mailbox that hands out its newest message
PoolDequeueLast ==
    /\ ~poolPanicked
    /\ current = NoMsg
    /\ mailbox # <<>>
    /\ current' = mailbox[Len(mailbox)]
    /\ mailbox' = SubSeq(mailbox, 1, Len(mailbox) - 1)
    /\ UNCHANGED <<stream_writers, bound, poolPanicked, errorLog, writeLog>>
    /\ UNCHANGED readerVars
    /\ UNCHANGED <<supVars, readsLeft>>

PoolDequeue ==
    /\ ~poolPanicked
    /\ current = NoMsg
    /\ mailbox # <<>>
    /\ current' = Head(mailbox)
    /\ mailbox' = Tail(mailbox)
    /\ UNCHANGED <<stream_writers, bound, poolPanicked, errorLog, writeLog>>
    /\ UNCHANGED readerVars
    /\ UNCHANGED <<supVars, readsLeft>>

\* Handler<PoolBindMessage>::handle
HandleBind ==
    /\ ~poolPanicked
    /\ current.type = "Bind"
    /\ bound' = TRUE
    /\ current' = NoMsg
    /\ UNCHANGED <<stream_writers, poolPanicked, mailbox, errorLog, writeLog>>
    /\ UNCHANGED readerVars
    /\ UNCHANGED <<supVars, readsLeft>>

\* an insert into a map emptied first
MapInsertAlone(m, a, w) == [k \in {a} |-> w]

\* an insert that keeps the entry a key already has
MapInsertIfAbsent(m, a, w) ==
    [k \in (DOMAIN m) \cup {a} |-> IF k \in DOMAIN m THEN m[k] ELSE w]

\* HashMap::insert
MapInsert(m, a, w) ==
    [k \in (DOMAIN m) \cup {a} |-> IF k = a THEN w ELSE m[k]]

\* HashMap::remove that removes nothing
MapRemoveNothing(m, a) == m

\* HashMap::clear in the place of HashMap::remove
MapRemoveAll(m, a) == [k \in {} |-> m[k]]

\* HashMap::remove
MapRemove(m, a) ==
    [k \in (DOMAIN m) \ {a} |-> m[k]]

\* set_up_stream_writer that registers nothing for an AddStreamMsg without
\* discriminator factories
set_up_stream_writerIfFactories(m, msg) ==
    IF msg.discriminator_factories = 0 THEN m
    ELSE MapInsert(m, msg.peer_addr, msg.stream)

\* StreamHandlerPool::set_up_stream_writer: the map after the insert
set_up_stream_writer(m, msg) ==
    MapInsert(m, msg.peer_addr, msg.stream)

\* StreamHandlerPool::set_up_stream_reader: the reader thread as spawned
set_up_stream_reader(msg) ==
    [stream_key |-> msg.peer_addr, origin_port |-> msg.origin_port,
     factories |-> msg.discriminator_factories]

\* Handler<AddStreamMsg>::handle that spawns the reader although the second
\* try_clone failed
HandleAddSpawnsAfterFailedClone ==
    /\ ~poolPanicked
    /\ current.type = "Add"
    /\ current' = NoMsg
    /\ \E cloneRead \in BOOLEAN, cloneWrite \in BOOLEAN :
          IF ~cloneRead
          THEN /\ errorLog' = Append(errorLog, [line |-> "clone_read"])
               /\ pc' = [pc EXCEPT ![current.stream] = "dropped"]
               /\ UNCHANGED <<stream_writers, poolPanicked, reader>>
          ELSE IF ~cloneWrite
          THEN /\ errorLog' = Append(errorLog, [line |-> "clone_write"])
               /\ reader' = [reader EXCEPT ![current.stream] = set_up_stream_reader(current)]
               /\ pc' = [pc EXCEPT ![current.stream] = "spawned"]
               /\ UNCHANGED <<stream_writers, poolPanicked>>
          ELSE IF ~bound
          THEN /\ poolPanicked' = TRUE
               /\ pc' = [pc EXCEPT ![current.stream] = "dropped"]
               /\ UNCHANGED <<stream_writers, errorLog, reader>>
          ELSE /\ stream_writers' = set_up_stream_writer(stream_writers, current)
               /\ reader' = [reader EXCEPT ![current.stream] = set_up_stream_reader(current)]
               /\ pc' = [pc EXCEPT ![current.stream] = "spawned"]
               /\ UNCHANGED <<poolPanicked, errorLog>>
    /\ UNCHANGED <<bound, mailbox, writeLog>>
    /\ UNCHANGED <<readLog, discBuf, received, ibcd, removed, warnings>>
    /\ UNCHANGED <<supVars, readsLeft>>

\* Handler<AddStreamMsg>::handle that spawns the reader and leaves the
\* insert of the writer out
HandleAddSpawnsWithoutInsert ==
    /\ ~poolPanicked
    /\ current.type = "Add"
    /\ current' = NoMsg
    /\ \E cloneRead \in BOOLEAN, cloneWrite \in BOOLEAN :
          IF ~cloneRead
          THEN /\ errorLog' = Append(errorLog, [line |-> "clone_read"])
               /\ pc' = [pc EXCEPT ![current.stream] = "dropped"]
               /\ UNCHANGED <<stream_writers, poolPanicked, reader>>
          ELSE IF ~cloneWrite
          THEN /\ errorLog' = Append(errorLog, [line |-> "clone_write"])
               /\ pc' = [pc EXCEPT ![current.stream] = "dropped"]
               /\ UNCHANGED <<stream_writers, poolPanicked, reader>>
          ELSE IF ~bound
          THEN /\ poolPanicked' = TRUE
               /\ pc' = [pc EXCEPT ![current.stream] = "dropped"]
               /\ UNCHANGED <<stream_writers, errorLog, reader>>
          ELSE /\ reader' = [reader EXCEPT ![current.stream] = set_up_stream_reader(current)]
               /\ pc' = [pc EXCEPT ![current.stream] = "spawned"]
               /\ UNCHANGED <<stream_writers, poolPanicked, errorLog>>
    /\ UNCHANGED <<bound, mailbox, writeLog>>
    /\ UNCHANGED <<readLog, discBuf, received, ibcd, removed, warnings>>
    /\ UNCHANGED <<supVars, readsLeft>>

\* Handler<AddStreamMsg>::handle; cloneRead and cloneWrite are the results
\* of the two try_clone calls
HandleAdd ==
    /\ ~poolPanicked
    /\ current.type = "Add"
    /\ current' = NoMsg
    /\ \E cloneRead \in BOOLEAN, cloneWrite \in BOOLEAN :
          IF ~cloneRead
          THEN /\ errorLog' = Append(errorLog, [line |-> "clone_read"])
               /\ pc' = [pc EXCEPT ![current.stream] = "dropped"]
               /\ UNCHANGED <<stream_writers, poolPanicked, reader>>
          ELSE IF ~cloneWrite
          THEN /\ errorLog' = Append(errorLog, [line |-> "clone_write"])
               /\ pc' = [pc EXCEPT ![current.stream] = "dropped"]
               /\ UNCHANGED <<stream_writers, poolPanicked, reader>>
          ELSE IF ~bound
          THEN \* expect ("StreamHandlerPool is unbound")
               /\ poolPanicked' = TRUE
               /\ pc' = [pc EXCEPT ![current.stream] = "dropped"]
               /\ UNCHANGED <<stream_writers, errorLog, reader>>
          ELSE /\ stream_writers' = set_up_stream_writer(stream_writers, current)
               /\ reader' = [reader EXCEPT ![current.stream] = set_up_stream_reader(current)]
               /\ pc' = [pc EXCEPT ![current.stream] = "spawned"]
               /\ UNCHANGED <<poolPanicked, errorLog>>
    /\ UNCHANGED <<bound, mailbox, writeLog>>
    /\ UNCHANGED <<readLog, discBuf, received, ibcd, removed, warnings>>
    /\ UNCHANGED <<supVars, readsLeft>>

\* Handler<RemoveStreamMsg>::handle
HandleRemove ==
    /\ ~poolPanicked
    /\ current.type = "Remove"
    /\ current' = NoMsg
    /\ stream_writers' = MapRemove(stream_writers, current.socket_addr)
    /\ UNCHANGED <<bound, poolPanicked, mailbox, errorLog, writeLog>>
    /\ UNCHANGED readerVars
    /\ UNCHANGED <<supVars, readsLeft>>


\* how a write ended, as StreamWriterReal::transmit tells the cases apart
WriteOutcome(r) ==
    IF r.ok THEN "ok"
    ELSE IF indicates_dead_stream(r.kind) THEN "dead"
    ELSE "error"

\* a write and a shutdown as the stream saw them
WriteOp(d, r) == [op |-> "write", data |-> d, outcome |-> WriteOutcome(r)]
ShutdownOp == [op |-> "shutdown", how |-> "Both"]

\* transmit that takes every failed write for a dead stream
WriterTransmitRemovesOnAnyError(w, a, d, r, room) ==
    IF r.ok
    THEN [ops |-> <<WriteOp(d, r)>>, removes |-> <<>>, panics |-> FALSE,
          log |-> <<>>, returns |-> <<r>>]
    ELSE IF room
         THEN [ops |-> <<WriteOp(d, r), ShutdownOp>>,
               removes |-> <<RemoveMsg(a, "writer", w)>>,
               panics |-> FALSE,
               log |-> <<[line |-> "cannot_transmit", logger |-> a, len |-> Len(d)]>>,
               returns |-> <<r>>]
         ELSE [ops |-> <<WriteOp(d, r), ShutdownOp>>, removes |-> <<>>,
               panics |-> TRUE, log |-> <<>>, returns |-> <<>>]

\* StreamWriterReal::transmit on the writer of stream w, whose stream_key is
\* a, with the write ending as r: the operations on the write stream, the
\* RemoveStreamMsg sent, whether the send panicked, the line logged, and
\* the io::Result returned (none when the call unwinds)
WriterTransmit(w, a, d, r, room) ==
    IF r.ok
    THEN [ops |-> <<WriteOp(d, r)>>, removes |-> <<>>, panics |-> FALSE,
          log |-> <<>>, returns |-> <<r>>]
    ELSE IF indicates_dead_stream(r.kind)
    THEN IF room
         THEN [ops |-> <<WriteOp(d, r), ShutdownOp>>,
               removes |-> <<RemoveMsg(a, "writer", w)>>,
               panics |-> FALSE,
               log |-> <<[line |-> "cannot_transmit", logger |-> a, len |-> Len(d)]>>,
               returns |-> <<r>>]
         ELSE [ops |-> <<WriteOp(d, r), ShutdownOp>>, removes |-> <<>>,
               panics |-> TRUE, log |-> <<>>, returns |-> <<>>]
    ELSE [ops |-> <<WriteOp(d, r)>>, removes |-> <<>>, panics |-> FALSE,
          log |-> <<[line |-> "cannot_transmit", logger |-> a, len |-> Len(d)]>>,
          returns |-> <<r>>]

\* the None arm without its log call
NonexistentLogNothing(msg) == <<>>

\* what Handler<TransmitDataMsg>::handle logs when it finds no writer
NonexistentLog(msg) ==
    <<[line |-> "nonexistent_stream", addr |-> msg.socket_addr,
       len |-> Len(msg.data)]>>

\* the shutdown without the test of last_data
LastDataOpsAlways(msg) == <<ShutdownOp>>

\* the handler without its shutdown
LastDataOpsNever(msg) == <<>>

\* what Handler<TransmitDataMsg>::handle does to the writer after transmit
LastDataOps(msg) ==
    IF msg.last_data THEN <<ShutdownOp>> ELSE <<>>

\* Handler<TransmitDataMsg>::handle that forgets the writer it shut down
HandleTransmitDropsShutDownWriter ==
    /\ ~poolPanicked
    /\ current.type = "Transmit"
    /\ current' = NoMsg
    /\ IF current.endpoint # "Socket"
       THEN /\ poolPanicked' = TRUE
            /\ UNCHANGED <<mailbox, errorLog, writeLog, stream_writers>>
       ELSE IF current.socket_addr \in DOMAIN stream_writers
       THEN \E r \in WriteResults :
              LET w == stream_writers[current.socket_addr]
                  t == WriterTransmit(w, current.socket_addr, current.data, r,
                                      MailboxAccepts)
                  last == IF t.panics THEN <<>> ELSE LastDataOps(current)
              IN  /\ writeLog' = [writeLog EXCEPT ![w] = @ \o t.ops \o last]
                  /\ mailbox' = mailbox \o t.removes
                  /\ errorLog' = errorLog \o t.log
                  /\ poolPanicked' = t.panics
                  /\ stream_writers' =
                        IF last # <<>>
                        THEN MapRemove(stream_writers, current.socket_addr)
                        ELSE stream_writers
       ELSE /\ errorLog' = errorLog \o NonexistentLog(current)
            /\ UNCHANGED <<poolPanicked, mailbox, writeLog, stream_writers>>
    /\ UNCHANGED bound
    /\ UNCHANGED readerVars
    /\ UNCHANGED <<supVars, readsLeft>>

\* Handler<TransmitDataMsg>::handle that resolves every endpoint the way it
\* resolves Endpoint::Socket
HandleTransmitResolvesAll ==
    /\ ~poolPanicked
    /\ current.type = "Transmit"
    /\ current' = NoMsg
    /\ IF current.socket_addr \in DOMAIN stream_writers
       THEN \E r \in WriteResults :
              LET w == stream_writers[current.socket_addr]
                  t == WriterTransmit(w, current.socket_addr, current.data, r,
                                      MailboxAccepts)
                  last == IF t.panics THEN <<>> ELSE LastDataOps(current)
              IN  /\ writeLog' = [writeLog EXCEPT ![w] = @ \o t.ops \o last]
                  /\ mailbox' = mailbox \o t.removes
                  /\ errorLog' = errorLog \o t.log
                  /\ poolPanicked' = t.panics
       ELSE /\ errorLog' = errorLog \o NonexistentLog(current)
            /\ UNCHANGED <<poolPanicked, mailbox, writeLog>>
    /\ UNCHANGED <<stream_writers, bound>>
    /\ UNCHANGED readerVars
    /\ UNCHANGED <<supVars, readsLeft>>

\* Handler<TransmitDataMsg>::handle
HandleTransmit ==
    /\ ~poolPanicked
    /\ current.type = "Transmit"
    /\ current' = NoMsg
    /\ IF current.endpoint # "Socket"
       THEN \* unimplemented!()
            /\ poolPanicked' = TRUE
            /\ UNCHANGED <<mailbox, errorLog, writeLog>>
       ELSE IF current.socket_addr \in DOMAIN stream_writers
       THEN \E r \in WriteResults :
              LET w == stream_writers[current.socket_addr]
                  t == WriterTransmit(w, current.socket_addr, current.data, r,
                                      MailboxAccepts)
                  last == IF t.panics THEN <<>> ELSE LastDataOps(current)
              IN  /\ writeLog' = [writeLog EXCEPT ![w] = @ \o t.ops \o last]
                  /\ mailbox' = mailbox \o t.removes
                  /\ errorLog' = errorLog \o t.log
                  /\ poolPanicked' = t.panics
       ELSE /\ errorLog' = errorLog \o NonexistentLog(current)
            /\ UNCHANGED <<poolPanicked, mailbox, writeLog>>
    /\ UNCHANGED <<stream_writers, bound>>
    /\ UNCHANGED readerVars
    /\ UNCHANGED <<supVars, readsLeft>>

(***************************************************************************)
(* The discriminator of a reader (discriminators[0]): add_data appends,    *)
(* take_chunk hands out the first complete frame, if there is one.  A      *)
(* frame ends with byte 0; its first byte selects the component.           *)
(***************************************************************************)
add_data(buf, bytes) == buf \o bytes

FrameEnd(buf) ==
    IF \E i \in 1 .. Len(buf) : buf[i] = 0
    THEN CHOOSE i \in 1 .. Len(buf) :
            buf[i] = 0 /\ \A j \in 1 .. (i - 1) : buf[j] # 0
    ELSE 0

ChunkComponent(chunk) == IF chunk[1] = 2 THEN "Hopper" ELSE "ProxyServer"

\* take_chunk: Some (UnmaskedChunk) and what stays buffered, or None
take_chunk(buf) ==
    LET e == FrameEnd(buf)
    IN  IF e = 0
        THEN [some |-> FALSE, rest |-> buf]
        ELSE [some |-> TRUE,
              chunk |-> SubSeq(buf, 1, e),
              component |-> ChunkComponent(SubSeq(buf, 1, e)),
              rest |-> SubSeq(buf, e + 1, Len(buf))]

(***************************************************************************)
(* A reader thread.                                                        *)
(*   none       no AddStreamMsg for the stream has been handled            *)
(*   dropped    its AddStreamMsg was handled and no thread was spawned     *)
(*   spawned    thread::spawn has been called                              *)
(*   reading    at the call of read() in handle_traffic's loop             *)
(*   wrangling  in wrangle_discriminators' loop                            *)
(*   shutdown   RemoveStreamMsg sent, before stream.shutdown               *)
(*   terminal   shut down, before the last InboundClientData is sent       *)
(*   done       handle_traffic has returned                                *)
(*   panicked   the thread has panicked                                    *)
(***************************************************************************)
ReadOp == [op |-> "read"]
SetReadTimeoutOp == [op |-> "set_read_timeout", timeout |-> "None"]
\* the reader's shutdown as its stream saw it, and whether it succeeded
ReaderShutdownOp(ok) == [op |-> "shutdown", how |-> "Both", ok |-> ok]

\* a thread that sets the read timeout before it looks at the factories
ReaderStartSetsTimeoutFirst(s) ==
    /\ pc[s] = "spawned"
    /\ readLog' = [readLog EXCEPT ![s] = Append(@, SetReadTimeoutOp)]
    /\ IF reader[s].factories = 0
       THEN pc' = [pc EXCEPT ![s] = "panicked"]
       ELSE pc' = [pc EXCEPT ![s] = "reading"]
    /\ UNCHANGED <<reader, discBuf, received, ibcd, removed, warnings>>
    /\ UNCHANGED poolVars
    /\ UNCHANGED <<supVars, readsLeft>>

\* the thread's closure up to handle_traffic's loop: StreamReaderReal::new,
\* then set_read_timeout (None)
ReaderStart(s) ==
    /\ pc[s] = "spawned"
    /\ IF reader[s].factories = 0
       THEN \* panic! ("Internal error: no Discriminator factories!")
            /\ pc' = [pc EXCEPT ![s] = "panicked"]
            /\ UNCHANGED readLog
       ELSE /\ pc' = [pc EXCEPT ![s] = "reading"]
            /\ readLog' = [readLog EXCEPT ![s] = Append(@, SetReadTimeoutOp)]
    /\ UNCHANGED <<reader, discBuf, received, ibcd, removed, warnings>>
    /\ UNCHANGED poolVars
    /\ UNCHANGED <<supVars, readsLeft>>

\* ReadArm that takes a read of 0 bytes for the end of the stream
ReadArmEmptyIsDead(r) ==
    IF r.ok
    THEN IF Len(r.data) = 0 THEN "dead" ELSE "wrangle"
    ELSE IF indicates_timeout(r.kind) THEN "sleep"
    ELSE IF indicates_dead_stream(r.kind) THEN "dead"
    ELSE "warn"

\* ReadArm without the final else: every error that is no timeout is dead
ReadArmBenignIsDead(r) ==
    IF r.ok
    THEN IF Len(r.data) = 0 THEN "sleep" ELSE "wrangle"
    ELSE IF indicates_timeout(r.kind) THEN "sleep"
    ELSE "dead"

\* which arm of handle_traffic's match a read result takes
ReadArm(r) ==
    IF r.ok
    THEN IF Len(r.data) = 0 THEN "sleep" ELSE "wrangle"
    ELSE IF indicates_timeout(r.kind) THEN "sleep"
    ELSE IF indicates_dead_stream(r.kind) THEN "dead"
    ELSE "warn"

\* a read whose RemoveStreamMsg, when the mailbox does not take it, is
\* dropped and the reader goes on
ReaderReadDropsRemove(s, r) ==
    /\ pc[s] = "reading"
    /\ readsLeft > 0
    /\ readsLeft' = readsLeft - 1
    /\ readLog' = [readLog EXCEPT ![s] = Append(@, ReadOp)]
    /\ LET arm == ReadArm(r)
       IN  /\ IF arm = "wrangle"
              THEN /\ received' = [received EXCEPT ![s] = @ \o r.data]
                   /\ discBuf' = [discBuf EXCEPT ![s] = add_data(@, r.data)]
              ELSE UNCHANGED <<received, discBuf>>
           /\ warnings' = [warnings EXCEPT ![s] = IF arm = "warn" THEN @ + 1 ELSE @]
           /\ IF arm = "dead"
              THEN IF MailboxAccepts
                   THEN /\ mailbox' = Append(mailbox,
                                 RemoveMsg(reader[s].stream_key, "reader", s))
                        /\ removed' = [removed EXCEPT ![s] =
                                 Append(@, reader[s].stream_key)]
                        /\ pc' = [pc EXCEPT ![s] = "shutdown"]
                   ELSE /\ pc' = [pc EXCEPT ![s] = "shutdown"]
                        /\ UNCHANGED <<mailbox, removed>>
              ELSE /\ pc' = [pc EXCEPT ![s] = IF arm = "wrangle" THEN "wrangling" ELSE "reading"]
                   /\ UNCHANGED <<mailbox, removed>>
    /\ UNCHANGED <<reader, ibcd>>
    /\ UNCHANGED <<stream_writers, bound, poolPanicked, current, errorLog, writeLog>>
    /\ UNCHANGED supVars

\* one read() of handle_traffic's loop ending as r, up to the next send or
\* the next read
ReaderRead(s, r) ==
    /\ pc[s] = "reading"
    /\ readsLeft > 0
    /\ readsLeft' = readsLeft - 1
    /\ readLog' = [readLog EXCEPT ![s] = Append(@, ReadOp)]
    /\ LET arm == ReadArm(r)
       IN  /\ IF arm = "wrangle"
              THEN /\ received' = [received EXCEPT ![s] = @ \o r.data]
                   /\ discBuf' = [discBuf EXCEPT ![s] = add_data(@, r.data)]
              ELSE UNCHANGED <<received, discBuf>>
           /\ warnings' = [warnings EXCEPT ![s] = IF arm = "warn" THEN @ + 1 ELSE @]
           /\ IF arm = "dead"
              THEN IF MailboxAccepts
                   THEN /\ mailbox' = Append(mailbox,
                                 RemoveMsg(reader[s].stream_key, "reader", s))
                        /\ removed' = [removed EXCEPT ![s] =
                                 Append(@, reader[s].stream_key)]
                        /\ pc' = [pc EXCEPT ![s] = "shutdown"]
                   ELSE \* expect ("StreamHandlerPool is dead")
                        /\ pc' = [pc EXCEPT ![s] = "panicked"]
                        /\ UNCHANGED <<mailbox, removed>>
              ELSE /\ pc' = [pc EXCEPT ![s] = IF arm = "wrangle" THEN "wrangling" ELSE "reading"]
                   /\ UNCHANGED <<mailbox, removed>>
    /\ UNCHANGED <<reader, ibcd>>
    /\ UNCHANGED <<stream_writers, bound, poolPanicked, current, errorLog, writeLog>>
    /\ UNCHANGED supVars

\* ChunkIbcd that forgets the origin port
ChunkIbcdNoOrigin(rd, c) ==
    [socket_addr |-> rd.stream_key, origin_port |-> "None",
     component |-> c.component, last_data |-> FALSE, data |-> c.chunk]

\* the InboundClientData wrangle_discriminators builds from a chunk
ChunkIbcd(rd, c) ==
    [socket_addr |-> rd.stream_key, origin_port |-> rd.origin_port,
     component |-> c.component, last_data |-> FALSE, data |-> c.chunk]

\* TerminalIbcd that forgets the origin port
TerminalIbcdNoOrigin(rd) ==
    [socket_addr |-> rd.stream_key, origin_port |-> "None",
     component |-> "ProxyServer", last_data |-> TRUE, data |-> <<>>]

\* TerminalIbcd without the flag
TerminalIbcdNotLast(rd) ==
    [socket_addr |-> rd.stream_key, origin_port |-> rd.origin_port,
     component |-> "ProxyServer", last_data |-> FALSE, data |-> <<>>]

\* the InboundClientData handle_traffic sends for a dead stream
TerminalIbcd(rd) ==
    [socket_addr |-> rd.stream_key, origin_port |-> rd.origin_port,
     component |-> "ProxyServer", last_data |-> TRUE, data |-> <<>>]

\* one turn of wrangle_discriminators' loop; accepted: whether the
\* dispatcher's mailbox takes the message
ReaderWrangle(s, accepted) ==
    /\ pc[s] = "wrangling"
    /\ LET c == take_chunk(discBuf[s])
       IN  /\ discBuf' = [discBuf EXCEPT ![s] = c.rest]
           /\ IF ~c.some
              THEN /\ accepted
                   /\ pc' = [pc EXCEPT ![s] = "reading"]
                   /\ UNCHANGED ibcd
              ELSE IF accepted
              THEN /\ ibcd' = [ibcd EXCEPT ![s] = Append(@, ChunkIbcd(reader[s], c))]
                   /\ UNCHANGED pc
              ELSE \* expect ("Dispatcher is dead")
                   /\ pc' = [pc EXCEPT ![s] = "panicked"]
                   /\ UNCHANGED ibcd
    /\ UNCHANGED <<readLog, reader, received, removed, warnings>>
    /\ UNCHANGED poolVars
    /\ UNCHANGED <<supVars, readsLeft>>

\* ReaderShutdown with the break one statement early
ReaderShutdownThenBreak(s) ==
    /\ pc[s] = "shutdown"
    /\ \E ok \in BOOLEAN :
          readLog' = [readLog EXCEPT ![s] = Append(@, ReaderShutdownOp(ok))]
    /\ pc' = [pc EXCEPT ![s] = "done"]
    /\ UNCHANGED <<reader, discBuf, received, ibcd, removed, warnings>>
    /\ UNCHANGED poolVars
    /\ UNCHANGED <<supVars, readsLeft>>

\* a shutdown whose failure ends the thread
ReaderShutdownStopsOnFailure(s) ==
    /\ pc[s] = "shutdown"
    /\ \E ok \in BOOLEAN :
          /\ readLog' = [readLog EXCEPT ![s] = Append(@, ReaderShutdownOp(ok))]
          /\ pc' = [pc EXCEPT ![s] = IF ok THEN "terminal" ELSE "done"]
    /\ UNCHANGED <<reader, discBuf, received, ibcd, removed, warnings>>
    /\ UNCHANGED poolVars
    /\ UNCHANGED <<supVars, readsLeft>>

\* self.stream.shutdown (Shutdown::Both).ok (): the result is dropped
ReaderShutdown(s) ==
    /\ pc[s] = "shutdown"
    /\ \E ok \in BOOLEAN :
          readLog' = [readLog EXCEPT ![s] = Append(@, ReaderShutdownOp(ok))]
    /\ pc' = [pc EXCEPT ![s] = "terminal"]
    /\ UNCHANGED <<reader, discBuf, received, ibcd, removed, warnings>>
    /\ UNCHANGED poolVars
    /\ UNCHANGED <<supVars, readsLeft>>

\* ReaderSendTerminal without the break
ReaderSendTerminalNoBreak(s, accepted) ==
    /\ pc[s] = "terminal"
    /\ IF accepted
       THEN /\ ibcd' = [ibcd EXCEPT ![s] = Append(@, TerminalIbcd(reader[s]))]
            /\ pc' = [pc EXCEPT ![s] = "reading"]
       ELSE /\ pc' = [pc EXCEPT ![s] = "panicked"]
            /\ UNCHANGED ibcd
    /\ UNCHANGED <<readLog, reader, discBuf, received, removed, warnings>>
    /\ UNCHANGED poolVars
    /\ UNCHANGED <<supVars, readsLeft>>

\* the send of the last InboundClientData, then break
ReaderSendTerminal(s, accepted) ==
    /\ pc[s] = "terminal"
    /\ IF accepted
       THEN /\ ibcd' = [ibcd EXCEPT ![s] = Append(@, TerminalIbcd(reader[s]))]
            /\ pc' = [pc EXCEPT ![s] = "done"]
       ELSE \* expect ("Dispatcher is dead")
            /\ pc' = [pc EXCEPT ![s] = "panicked"]
            /\ UNCHANGED ibcd
    /\ UNCHANGED <<readLog, reader, discBuf, received, removed, warnings>>
    /\ UNCHANGED poolVars
    /\ UNCHANGED <<supVars, readsLeft>>

Supervisor == SendBind \/ SendAdd \/ SendRemove \/ SendTransmit

Pool == PoolDequeue \/ HandleBind \/ HandleAdd \/ HandleRemove \/ HandleTransmit

\* the steps a reader thread takes on its own
ReaderStep(s) ==
    \/ ReaderStart(s)
    \/ \E accepted \in BOOLEAN : ReaderWrangle(s, accepted)
    \/ ReaderShutdown(s)
    \/ \E accepted \in BOOLEAN : ReaderSendTerminal(s, accepted)

\* a read() returning: the stream decides when and how
StreamDelivers(s) == \E r \in ReadResults : ReaderRead(s, r)

Next ==
    \/ Supervisor
    \/ Pool
    \/ \E s \in Streams : ReaderStep(s)
    \/ \E s \in Streams : StreamDelivers(s)

Spec == Init /\ [][Next]_vars

ReaderSpec == ReaderInit /\ [][Next]_vars

PoolSpec == PoolInit /\ [][Next]_vars

\* The pool's arbiter runs a handler whenever a message waits, and a reader
\* thread that is not blocked in read() runs on.  Nothing makes the
\* supervisor send or a stream deliver.
Fairness ==
    /\ WF_vars(Pool)
    /\ \A s \in Streams : WF_vars(ReaderStep(s))

FairSpec == Spec /\ Fairness

FairReaderSpec == ReaderSpec /\ Fairness


(***************************************************************************)
(* Properties.                                                             *)
(***************************************************************************)
TerminalCount(s) == Len(SelectSeq(ibcd[s], LAMBDA m : m.last_data))

\* the pool has handled the AddStreamMsg that carried stream s
AddHandled(s) == pc[s] # "none"

\* the reader of s has taken the dead-stream arm and not yet left it
InDeadArm(s) == pc[s] \in {"shutdown", "terminal"}

\* C1 as stated, for the streams whose AddStreamMsg gave them a reader that
\* reached its read loop and does not panic: exactly one InboundClientData
\* with last_data = true is eventually sent for each, and never more than
\* one.
C1_EveryAddEndsInOneTerminal ==
    \A s \in Streams :
        /\ [](AddHandled(s) /\ pc[s] = "reading"
                => <>(TerminalCount(s) = 1 \/ pc[s] = "panicked"))
        /\ [](TerminalCount(s) <= 1)

\* C1 amended: no reader ever sends more than one InboundClientData with
\* last_data = true, and a reader that has taken the dead-stream arm goes
\* on to send exactly one and return, unless that send fails and it panics.
C1_DeadArmEndsInOneTerminal ==
    \A s \in Streams :
        /\ [](TerminalCount(s) <= 1)
        /\ [](pc[s] = "done" => TerminalCount(s) = 1)
        /\ (InDeadArm(s) ~>
              (pc[s] = "done" /\ TerminalCount(s) = 1) \/ pc[s] = "panicked")

\* a reader has returned from handle_traffic after sending its one terminal
\* message
C1_Witness ==
    \E s \in Streams : pc[s] = "done" /\ TerminalCount(s) = 1


(***************************************************************************)
(* C2                                                                      *)
(***************************************************************************)
\* the RemoveStreamMsg of the reader of s that are in the mailbox or in the
\* pool's hand
ReaderRemovesInFlight(s) ==
    {i \in 1 .. Len(mailbox) :
        mailbox[i].type = "Remove" /\ mailbox[i].by = "reader"
        /\ mailbox[i].stream = s}

\* C2: a reader sends at most one RemoveStreamMsg, carrying its own
\* stream_key, and at most one InboundClientData with last_data = true, and
\* when it has left its read loop it has sent exactly one of each.
C2_OneRemoveAndOneTerminalAtExit ==
    \A s \in Streams :
        /\ Len(removed[s]) <= 1
        /\ TerminalCount(s) <= 1
        /\ \A i \in 1 .. Len(removed[s]) : removed[s][i] = reader[s].stream_key
        /\ \A i \in ReaderRemovesInFlight(s) :
              mailbox[i].socket_addr = reader[s].stream_key
        /\ (pc[s] = "done" => Len(removed[s]) = 1 /\ TerminalCount(s) = 1)

\* a reader has left its loop after a dead read, both messages sent
C2_Witness ==
    \E s \in Streams :
        /\ pc[s] = "done"
        /\ removed[s] = <<reader[s].stream_key>>
        /\ ibcd[s] # <<>>
        /\ ibcd[s][Len(ibcd[s])].last_data

(***************************************************************************)
(* C4                                                                      *)
(***************************************************************************)
\* all the chunks a discriminator hands out for a buffer, in order
RECURSIVE Drain(_)
Drain(buf) ==
    LET c == take_chunk(buf)
    IN  IF c.some THEN <<c>> \o Drain(c.rest) ELSE <<>>

\* the messages the dispatcher is to get for the bytes s has delivered
ExpectedIbcd(s) ==
    LET d == Drain(received[s])
    IN  [i \in 1 .. Len(d) |->
            [socket_addr |-> reader[s].stream_key,
             origin_port |-> reader[s].origin_port,
             component |-> d[i].component,
             last_data |-> FALSE,
             data |-> d[i].chunk]]

NonTerminalIbcd(s) == SelectSeq(ibcd[s], LAMBDA m : ~m.last_data)

IsPrefix(p, q) == Len(p) <= Len(q) /\ p = SubSeq(q, 1, Len(p))

\* C4: whenever a reader is not inside wrangle_discriminators, the
\* non-terminal messages it has sent are exactly the chunks its
\* discriminator frames out of all the bytes read so far, one message per
\* chunk, in order, with the chunk's component and data, the reader's
\* stream_key and origin_port and last_data = false; inside
\* wrangle_discriminators, or after a panic, they are a prefix of them.
C4_MessagesAreTheChunks ==
    \A s \in Streams :
        /\ IsPrefix(NonTerminalIbcd(s), ExpectedIbcd(s))
        /\ (pc[s] \in {"reading", "shutdown", "terminal", "done"}
              => NonTerminalIbcd(s) = ExpectedIbcd(s))

\* two reads, the first ending inside a frame, gave two chunks, both
\* forwarded with the origin port of the Add
C4_Witness ==
    \E s \in Streams :
        /\ pc[s] = "reading"
        /\ received[s] = <<1, 2, 0, 1, 0>>
        /\ reader[s].origin_port = "Some8081"
        /\ Len(ibcd[s]) = 2
        /\ ibcd[s][1].data = <<1, 2, 0>>
        /\ ibcd[s][2].data = <<1, 0>>

(***************************************************************************)
(* C5                                                                      *)
(***************************************************************************)
ReadCount(s) == Len(SelectSeq(readLog[s], LAMBDA o : o.op = "read"))

\* C5: a message with last_data = true is the last one its reader sends,
\* every chunk framed from the bytes read is sent before it, and from the
\* dead-stream arm on the reader calls read no more and sends nothing but
\* that one message.
C5_TerminalIsLast ==
    /\ [](\A s \in Streams : \A i \in 1 .. Len(ibcd[s]) :
            ibcd[s][i].last_data
              => i = Len(ibcd[s]) /\ NonTerminalIbcd(s) = ExpectedIbcd(s))
    /\ [][\A s \in Streams :
            pc[s] \in {"shutdown", "terminal", "done"}
              => /\ pc'[s] \in {"shutdown", "terminal", "done", "panicked"}
                 /\ ReadCount(s)' = ReadCount(s)
                 /\ \/ ibcd'[s] = ibcd[s]
                    \/ /\ pc[s] = "terminal"
                       /\ Len(ibcd'[s]) = Len(ibcd[s]) + 1
                       /\ SubSeq(ibcd'[s], 1, Len(ibcd[s])) = ibcd[s]
                       /\ ibcd'[s][Len(ibcd'[s])].last_data]_vars

\* a reader has returned, framed messages first and the terminal one last,
\* while its stream could still deliver
C5_Witness ==
    \E s \in Streams :
        /\ pc[s] = "done"
        /\ readsLeft > 0
        /\ Len(ibcd[s]) >= 3
        /\ ibcd[s][Len(ibcd[s])].last_data

(***************************************************************************)
(* C7                                                                      *)
(***************************************************************************)
ReadError(k) == [ok |-> FALSE, kind |-> k]

\* C7 as stated: a read that ends with BrokenPipe, ConnectionRefused,
\* ConnectionReset, ConnectionAborted or TimedOut ends the read loop: the
\* reader sends its RemoveStreamMsg and goes on to shut down, or panics on
\* the send.
C7_DeadKindsEndTheLoop ==
    [][\A s \in Streams :
        \A k \in {"BrokenPipe", "ConnectionRefused", "ConnectionReset",
                  "ConnectionAborted", "TimedOut"} :
            ReaderRead(s, ReadError(k))
              => \/ /\ pc'[s] = "shutdown"
                    /\ removed'[s] = Append(removed[s], reader[s].stream_key)
                 \/ pc'[s] = "panicked"]_vars

(***************************************************************************)
(* C8                                                                      *)
(***************************************************************************)
BenignKinds ==
    {k \in ErrorKinds : ~indicates_timeout(k) /\ ~indicates_dead_stream(k)}

\* C8: a read that ends with an error that is neither timeout-like nor
\* dead-stream sends nothing to the pool or the dispatcher, calls no
\* shutdown, logs one warning and leaves the reader at its next read.
C8_BenignReadErrorGoesOn ==
    [][\A s \in Streams : \A k \in BenignKinds :
        ReaderRead(s, ReadError(k))
          => /\ mailbox' = mailbox
             /\ removed' = removed
             /\ ibcd' = ibcd
             /\ readLog'[s] = Append(readLog[s], ReadOp)
             /\ warnings'[s] = warnings[s] + 1
             /\ pc'[s] = "reading"]_vars

\* after a benign read error the reader has framed and forwarded a chunk
\* and is at its next read, nothing sent to the pool
C8_Witness ==
    \E s \in Streams :
        /\ warnings[s] = 1
        /\ ReadCount(s) = 2
        /\ pc[s] = "reading"
        /\ Len(ibcd[s]) >= 1
        /\ removed[s] = <<>>
        /\ TerminalCount(s) = 0


(***************************************************************************)
(* C3                                                                      *)
(***************************************************************************)
IsReaderRemove(m, s) ==
    m.type = "Remove" /\ m.by = "reader" /\ m.stream = s

\* the RemoveStreamMsg of the reader of s waits in the mailbox or is in the
\* pool's hand
ReaderRemovePending(s) ==
    \/ ReaderRemovesInFlight(s) # {}
    \/ IsReaderRemove(current, s)

\* the pool has handled the RemoveStreamMsg the reader of s sent
ReaderRemoveHandled(s) ==
    removed[s] # <<>> /\ ~ReaderRemovePending(s)

\* the pool finishes the handler of a TransmitDataMsg for a socket address
\* that has no writer
HandlesUnknownTransmit ==
    /\ ~poolPanicked
    /\ current.type = "Transmit"
    /\ current.endpoint = "Socket"
    /\ current.socket_addr \notin DOMAIN stream_writers
    /\ current' = NoMsg

\* C3 as stated: once the pool has handled the RemoveStreamMsg a reader
\* sent after a dead read, the writer map has no entry for the reader's
\* stream_key, in that state and in every later one.
C3_KeyAbsentFromThenOn ==
    \A s \in Streams :
        ReaderRemoveHandled(s) => reader[s].stream_key \notin DOMAIN stream_writers

\* C3 amended: the RemoveStreamMsg a reader sent is handled in the end
\* unless a pool handler panics; the step that handles it leaves the map
\* without an entry for its key; a key comes into the map only by the
\* handling of an AddStreamMsg for it; and a TransmitDataMsg handled while
\* its key is absent writes nothing and logs the nonexistent stream.
C3_KeyAbsentUntilNextAdd ==
    /\ \A s \in Streams :
          ReaderRemovePending(s) ~> (ReaderRemoveHandled(s) \/ poolPanicked)
    /\ [][\A s \in Streams :
            IsReaderRemove(current, s) /\ current' = NoMsg
              => reader[s].stream_key \notin DOMAIN stream_writers']_vars
    /\ [][\A a \in Addrs :
            a \notin DOMAIN stream_writers /\ a \in DOMAIN stream_writers'
              => current.type = "Add" /\ current.peer_addr = a]_vars
    /\ [][HandlesUnknownTransmit
              => /\ writeLog' = writeLog
                 /\ Len(errorLog') = Len(errorLog) + 1
                 /\ errorLog'[Len(errorLog')].line = "nonexistent_stream"
                 /\ errorLog'[Len(errorLog')].addr = current.socket_addr]_vars

\* a reader's RemoveStreamMsg has been handled, its key is out of the map
\* and the Transmit that came after it was reported as nonexistent
C3_Witness ==
    \E s \in Streams :
        /\ ReaderRemoveHandled(s)
        /\ pc[s] = "done"
        /\ reader[s].stream_key \notin DOMAIN stream_writers
        /\ writeLog[s] = <<>>
        /\ errorLog # <<>>
        /\ errorLog[Len(errorLog)].line = "nonexistent_stream"
        /\ errorLog[Len(errorLog)].addr = reader[s].stream_key

(***************************************************************************)
(* C6                                                                      *)
(***************************************************************************)
\* C6 as stated: after a write on a writer has failed with a dead-stream
\* kind, no TransmitDataMsg makes the pool write on that writer again.
C6_NoWriteOnFailedWriter ==
    \A w \in Streams :
        \A i \in 1 .. Len(writeLog[w]) : \A j \in (i + 1) .. Len(writeLog[w]) :
            writeLog[w][i].op = "write" /\ writeLog[w][i].outcome = "dead"
              => writeLog[w][j].op # "write"

(***************************************************************************)
(* C9                                                                      *)
(***************************************************************************)
\* C9: handling a TransmitDataMsg whose socket address has no writer logs
\* exactly one line, the nonexistent stream with the address and the
\* length of the data, performs no operation on any write stream, sends
\* nothing and leaves the writer map as it was.
C9_UnknownAddressOnlyLogs ==
    [][HandlesUnknownTransmit
          => /\ errorLog' = Append(errorLog,
                    [line |-> "nonexistent_stream",
                     addr |-> current.socket_addr,
                     len |-> Len(current.data)])
             /\ writeLog' = writeLog
             /\ stream_writers' = stream_writers
             /\ mailbox' = mailbox
             /\ ~poolPanicked']_vars

\* a Transmit to an address without writer was logged while another
\* address had its writer, which was left alone
C9_Witness ==
    /\ DOMAIN stream_writers # {}
    /\ \A a \in DOMAIN stream_writers : writeLog[stream_writers[a]] = <<>>
    /\ Len(errorLog) = 1
    /\ errorLog[1].line = "nonexistent_stream"
    /\ errorLog[1].addr \notin DOMAIN stream_writers
    /\ current = NoMsg

(***************************************************************************)
(* C10                                                                     *)
(***************************************************************************)
\* the pool finishes the handler of a TransmitDataMsg with last_data = false
\* for a socket address that has a writer
HandlesPlainTransmit ==
    /\ ~poolPanicked
    /\ current.type = "Transmit"
    /\ current.endpoint = "Socket"
    /\ ~current.last_data
    /\ current.socket_addr \in DOMAIN stream_writers
    /\ current' = NoMsg

\* what a step added to the operations on the write stream of w
NewOps(w) == SubSeq(writeLog'[w], Len(writeLog[w]) + 1, Len(writeLog'[w]))

\* C10: handling a TransmitDataMsg with last_data = false for a registered
\* address performs exactly one write, of the message's data, on the writer
\* stored under the address, touches no other writer and leaves the map as
\* it was; when the write succeeds there is nothing else: no shutdown, no
\* log line, no message sent.
C10_PlainTransmitWritesOnce ==
    [][HandlesPlainTransmit
          => LET w == stream_writers[current.socket_addr]
             IN  /\ SubSeq(writeLog'[w], 1, Len(writeLog[w])) = writeLog[w]
                 /\ Len(NewOps(w)) >= 1
                 /\ NewOps(w)[1].op = "write"
                 /\ NewOps(w)[1].data = current.data
                 /\ \A i \in 2 .. Len(NewOps(w)) : NewOps(w)[i].op # "write"
                 /\ \A v \in Streams \ {w} : writeLog'[v] = writeLog[v]
                 /\ stream_writers' = stream_writers
                 /\ (NewOps(w)[1].outcome = "ok"
                       => /\ Len(NewOps(w)) = 1
                          /\ errorLog' = errorLog
                          /\ mailbox' = mailbox
                          /\ ~poolPanicked')]_vars

\* one successful write of the two bytes, no shutdown, nothing logged, the
\* writer still registered
C10_Witness ==
    \E a \in DOMAIN stream_writers :
        /\ writeLog[stream_writers[a]] =
              <<[op |-> "write", data |-> <<18, 52>>, outcome |-> "ok"]>>
        /\ errorLog = <<>>
        /\ current = NoMsg
        /\ mailbox = <<>>


(***************************************************************************)
(* C11                                                                     *)
(***************************************************************************)
\* the pool finishes the handler of a TransmitDataMsg with last_data = true
\* for a socket address that has a writer
HandlesLastTransmit ==
    /\ ~poolPanicked
    /\ current.type = "Transmit"
    /\ current.endpoint = "Socket"
    /\ current.last_data
    /\ current.socket_addr \in DOMAIN stream_writers
    /\ current' = NoMsg

\* the shutdown calls a step made on the write stream of w beyond the one
\* the writer itself makes after a write that failed with a dead-stream kind
HandlerShutdowns(w) ==
    Len(SelectSeq(NewOps(w), LAMBDA o : o.op = "shutdown"))
      - (IF NewOps(w)[1].outcome = "dead" THEN 1 ELSE 0)

\* C11: handling a TransmitDataMsg with last_data = true for a registered
\* address first writes the data on the writer stored under the address and
\* after the write calls shutdown (Both) on the same writer, whether the
\* write succeeded or failed, and the handler's own shutdown is called once
\* unless the writer's send of its RemoveStreamMsg panicked; handling one
\* with last_data = false makes the handler call no shutdown.
C11_LastDataWritesThenShutsDown ==
    /\ [][HandlesLastTransmit
            => LET w == stream_writers[current.socket_addr]
               IN  /\ SubSeq(writeLog'[w], 1, Len(writeLog[w])) = writeLog[w]
                   /\ Len(NewOps(w)) >= 2
                   /\ NewOps(w)[1].op = "write"
                   /\ NewOps(w)[1].data = current.data
                   /\ \A i \in 2 .. Len(NewOps(w)) : NewOps(w)[i] = ShutdownOp
                   /\ (~poolPanicked' => HandlerShutdowns(w) = 1)
                   /\ \A v \in Streams \ {w} : writeLog'[v] = writeLog[v]]_vars
    /\ [][HandlesPlainTransmit
            => HandlerShutdowns(stream_writers[current.socket_addr]) = 0]_vars

\* a write that failed with a kind that is not dead-stream, and the
\* shutdown of the handler after it
C11_Witness ==
    \E a \in DOMAIN stream_writers :
        /\ Len(writeLog[stream_writers[a]]) = 2
        /\ writeLog[stream_writers[a]][1].op = "write"
        /\ writeLog[stream_writers[a]][1].outcome = "error"
        /\ writeLog[stream_writers[a]][2] = ShutdownOp
        /\ current = NoMsg


(***************************************************************************)
(* C12                                                                     *)
(***************************************************************************)
\* the pool finishes the handler of a RemoveStreamMsg
HandlesRemove ==
    /\ ~poolPanicked
    /\ current.type = "Remove"
    /\ current' = NoMsg

\* C12: removing a key twice from the writer map gives the map that
\* removing it once gives, and handling a RemoveStreamMsg takes its key out
\* of the map, keeps every other entry, changes nothing at all when the key
\* is not in the map, and neither panics nor logs, bound or not.
C12_RemoveIsIdempotentAndTotal ==
    /\ [](\A a \in Addrs :
            /\ MapRemove(MapRemove(stream_writers, a), a)
                 = MapRemove(stream_writers, a)
            /\ (a \notin DOMAIN stream_writers
                  => MapRemove(stream_writers, a) = stream_writers))
    /\ [][HandlesRemove
            => LET a == current.socket_addr
               IN  /\ DOMAIN stream_writers' = (DOMAIN stream_writers) \ {a}
                   /\ \A k \in DOMAIN stream_writers' :
                         stream_writers'[k] = stream_writers[k]
                   /\ (a \notin DOMAIN stream_writers
                         => stream_writers' = stream_writers)
                   /\ ~poolPanicked'
                   /\ errorLog' = errorLog
                   /\ writeLog' = writeLog
                   /\ mailbox' = mailbox]_vars

\* the RemoveStreamMsg of the writer and the one of the reader of the same
\* stream have both been handled, the second with its key already gone
C12_Witness ==
    \E s \in Streams :
        /\ ReaderRemoveHandled(s)
        /\ \E i \in 1 .. Len(writeLog[s]) :
              writeLog[s][i].op = "write" /\ writeLog[s][i].outcome = "dead"
        /\ reader[s].stream_key \notin DOMAIN stream_writers
        /\ mailbox = <<>>
        /\ current = NoMsg
        /\ ~poolPanicked


(***************************************************************************)
(* C13                                                                     *)
(***************************************************************************)
\* the pool finishes the handler of an AddStreamMsg
HandlesAdd ==
    /\ ~poolPanicked
    /\ current.type = "Add"
    /\ current' = NoMsg

\* C13: the writer map is a function from socket addresses to writers, the
\* writer under a key was built by an AddStreamMsg for that peer address,
\* and handling an AddStreamMsg that neither logs a failed clone nor panics
\* makes the entry of its peer address the writer of this message, in the
\* place of any entry the address had, and changes no other entry.
C13_AddInsertsOrReplacesOneEntry ==
    /\ [](/\ DOMAIN stream_writers \subseteq Addrs
          /\ \A a \in DOMAIN stream_writers :
                /\ stream_writers[a] \in Streams
                /\ reader[stream_writers[a]].stream_key = a)
    /\ [][HandlesAdd /\ errorLog' = errorLog /\ ~poolPanicked'
            => LET a == current.peer_addr
               IN  /\ DOMAIN stream_writers' = (DOMAIN stream_writers) \cup {a}
                   /\ stream_writers'[a] = current.stream
                   /\ \A k \in (DOMAIN stream_writers) \ {a} :
                         stream_writers'[k] = stream_writers[k]]_vars

\* the second AddStreamMsg came for the address of the first and its writer
\* took the place of the first one's
C13_Witness ==
    /\ pc[1] \notin {"none", "dropped"}
    /\ reader[1].stream_key = "a1"
    /\ "a1" \in DOMAIN stream_writers
    /\ stream_writers["a1"] = 2


(***************************************************************************)
(* C14                                                                     *)
(***************************************************************************)
\* C14: handling an AddStreamMsg one of whose try_clone calls fails logs
\* that one failure and nothing else happens: the writer map, the readers,
\* the write streams and the mailbox are as before, the handler does not
\* panic, and no reader thread is ever spawned for that message, so that
\* its stream sees no operation and nothing is sent for it.
C14_FailedCloneDropsTheAdd ==
    /\ [][HandlesAdd /\ errorLog' # errorLog
            => /\ Len(errorLog') = Len(errorLog) + 1
               /\ SubSeq(errorLog', 1, Len(errorLog)) = errorLog
               /\ errorLog'[Len(errorLog')].line \in {"clone_read", "clone_write"}
               /\ stream_writers' = stream_writers
               /\ reader' = reader
               /\ pc' = [pc EXCEPT ![current.stream] = "dropped"]
               /\ writeLog' = writeLog
               /\ mailbox' = mailbox
               /\ ~poolPanicked']_vars
    /\ [][\A s \in Streams : pc[s] = "dropped" => pc'[s] = "dropped"]_vars
    /\ [](\A s \in Streams :
            pc[s] = "dropped"
              => /\ reader[s] = NoReader
                 /\ readLog[s] = <<>>
                 /\ ibcd[s] = <<>>
                 /\ removed[s] = <<>>
                 /\ \A a \in DOMAIN stream_writers : stream_writers[a] # s)

\* an AddStreamMsg was dropped for a failed clone and the pool went on to
\* handle the TransmitDataMsg that came after it, which found no writer
C14_Witness ==
    /\ pc[1] = "dropped"
    /\ ~poolPanicked
    /\ Len(errorLog) = 2
    /\ errorLog[1].line \in {"clone_read", "clone_write"}
    /\ errorLog[2].line = "nonexistent_stream"
    /\ errorLog[2].addr = "a1"
    /\ stream_writers = <<>>


(***************************************************************************)
(* C15                                                                     *)
(***************************************************************************)
\* C15 as stated: handling the RemoveStreamMsg that the reader or the
\* writer of a stream sent after a dead read or write leaves in the map
\* every entry that does not hold the writer of that very stream, a newer
\* writer under the same socket address included.
C15_RemoveTearsDownItsOwnStreamOnly ==
    [][HandlesRemove /\ current.by \in {"reader", "writer"}
          => \A k \in DOMAIN stream_writers :
                stream_writers[k] # current.stream
                  => /\ k \in DOMAIN stream_writers'
                     /\ stream_writers'[k] = stream_writers[k]]_vars


(***************************************************************************)
(* C16                                                                     *)
(***************************************************************************)
\* C16: a key that is in the writer map before a step and not after it was
\* the socket_addr of a RemoveStreamMsg whose handler that step finished,
\* and the handlers of the other three messages end with every key they
\* started with.
C16_OnlyRemoveShrinksTheMap ==
    /\ [][\A a \in Addrs :
            a \in DOMAIN stream_writers /\ a \notin DOMAIN stream_writers'
              => HandlesRemove /\ current.socket_addr = a]_vars
    /\ [][current.type \in {"Bind", "Add", "Transmit"} /\ current' = NoMsg
            => DOMAIN stream_writers \subseteq DOMAIN stream_writers']_vars

\* a write failed with a dead-stream kind, the writer's RemoveStreamMsg was
\* handled and took the key out; the reader of the stream sent none
C16_Witness ==
    \E s \in Streams :
        /\ pc[s] \notin {"none", "dropped"}
        /\ removed[s] = <<>>
        /\ \E i \in 1 .. Len(writeLog[s]) :
              writeLog[s][i].op = "write" /\ writeLog[s][i].outcome = "dead"
        /\ stream_writers = <<>>
        /\ mailbox = <<>>
        /\ current = NoMsg
        /\ ~poolPanicked


(***************************************************************************)
(* C17                                                                     *)
(***************************************************************************)
\* the pool finishes the handler of a message other than PoolBindMessage
\* before any PoolBindMessage was handled
HandlesUnbound ==
    /\ ~poolPanicked
    /\ ~bound
    /\ current.type \in {"Add", "Remove", "Transmit"}
    /\ current' = NoMsg

\* C17 as stated: the handler of an AddStreamMsg, a RemoveStreamMsg or a
\* TransmitDataMsg that runs before a PoolBindMessage has been handled
\* panics and leaves the writer map as it was.
C17_UnboundEventsAreFatal ==
    [][HandlesUnbound
          => poolPanicked' /\ stream_writers' = stream_writers]_vars


(***************************************************************************)
(* C18                                                                     *)
(***************************************************************************)
\* the pool finishes the handler of a TransmitDataMsg whose endpoint is
\* Endpoint::Key or Endpoint::Ip
HandlesKeyOrIpTransmit ==
    /\ ~poolPanicked
    /\ current.type = "Transmit"
    /\ current.endpoint \in {"Key", "Ip"}
    /\ current' = NoMsg

\* C18: handling a TransmitDataMsg with a Key or Ip endpoint panics and
\* does nothing else: no operation on any write stream, no log line, no
\* message sent, the writer map as before; an operation on a write stream
\* comes only from handling a TransmitDataMsg with a Socket endpoint; and
\* a pool that has panicked handles nothing more.
C18_KeyAndIpEndpointsAreFatal ==
    /\ [][HandlesKeyOrIpTransmit
            => /\ poolPanicked'
               /\ writeLog' = writeLog
               /\ stream_writers' = stream_writers
               /\ errorLog' = errorLog
               /\ mailbox' = mailbox]_vars
    /\ [][writeLog' # writeLog
            => current.type = "Transmit" /\ current.endpoint = "Socket"]_vars
    /\ [][poolPanicked
            => /\ poolPanicked'
               /\ stream_writers' = stream_writers
               /\ writeLog' = writeLog
               /\ errorLog' = errorLog]_vars

\* the bound pool panicked on a Key or Ip endpoint with a writer registered
\* and untouched
C18_Witness ==
    /\ poolPanicked
    /\ bound
    /\ "a1" \in DOMAIN stream_writers
    /\ \A s \in Streams : writeLog[s] = <<>>
    /\ errorLog = <<>>
    /\ current = NoMsg


(***************************************************************************)
(* C19                                                                     *)
(***************************************************************************)
\* a reader thread was spawned for s with no discriminator factory
SpawnedWithoutFactories(s) ==
    pc[s] \notin {"none", "dropped"} /\ reader[s].factories = 0

\* C19: a reader thread spawned with an empty sequence of discriminator
\* factories panics in StreamReaderReal::new and never gets further: its
\* stream sees no set_read_timeout, no read and no shutdown, it sends no
\* RemoveStreamMsg and no InboundClientData.
C19_NoFactoriesNoReader ==
    \A s \in Streams :
        SpawnedWithoutFactories(s)
          => /\ pc[s] \in {"spawned", "panicked"}
             /\ readLog[s] = <<>>
             /\ removed[s] = <<>>
             /\ ~ReaderRemovePending(s)
             /\ ibcd[s] = <<>>
             /\ discBuf[s] = <<>>

\* the thread of a reader without factories has panicked
C19_Witness ==
    \E s \in Streams :
        /\ SpawnedWithoutFactories(s)
        /\ pc[s] = "panicked"
        /\ readLog[s] = <<>>


(***************************************************************************)
(* C20                                                                     *)
(***************************************************************************)
\* the step takes the oldest message of the mailbox into the pool's hand
TakesHead ==
    /\ current = NoMsg
    /\ mailbox # <<>>
    /\ current' = Head(mailbox)
    /\ mailbox' = Tail(mailbox)

\* the step puts one message at the end of the mailbox
AppendsOne ==
    /\ Len(mailbox') = Len(mailbox) + 1
    /\ SubSeq(mailbox', 1, Len(mailbox)) = mailbox

\* C20: messages enter the mailbox at its end and leave it at its head,
\* one at a time and only when the pool has none in hand, and the pool's
\* hand changes only by taking the head or by finishing its handler; a
\* TransmitDataMsg handled while its address has no writer is written
\* nowhere and is not put back; an entry of the map changes only when an
\* AddStreamMsg for its address is handled, to the writer of that message;
\* and every write is that of the data of the TransmitDataMsg in hand on
\* the writer then stored under its address.
C20_MailboxOrderDecides ==
    /\ [][mailbox' = mailbox \/ TakesHead \/ AppendsOne]_vars
    /\ [][current' = current \/ TakesHead
            \/ (current # NoMsg /\ current' = NoMsg)]_vars
    /\ [][HandlesUnknownTransmit
            => writeLog' = writeLog /\ mailbox' = mailbox]_vars
    /\ [][\A a \in DOMAIN stream_writers' :
            a \notin DOMAIN stream_writers
              \/ stream_writers'[a] # stream_writers[a]
              => /\ HandlesAdd
                 /\ current.peer_addr = a
                 /\ stream_writers'[a] = current.stream]_vars
    /\ [][\A w \in Streams :
            writeLog'[w] # writeLog[w]
              => /\ current.type = "Transmit"
                 /\ current' = NoMsg
                 /\ current.socket_addr \in DOMAIN stream_writers
                 /\ stream_writers[current.socket_addr] = w
                 /\ NewOps(w)[1].op = "write"
                 /\ NewOps(w)[1].data = current.data]_vars

\* a TransmitDataMsg came before the AddStreamMsg for its address: it was
\* reported as nonexistent, and with the writer registered afterwards and
\* the mailbox empty nothing has been written
C20_Witness ==
    /\ errorLog = <<[line |-> "nonexistent_stream", addr |-> "a1", len |-> 2]>>
    /\ bound
    /\ "a1" \in DOMAIN stream_writers
    /\ writeLog[stream_writers["a1"]] = <<>>
    /\ mailbox = <<>>
    /\ current = NoMsg


(***************************************************************************)
(* C21                                                                     *)
(***************************************************************************)
\* a read of s ends with an error of the dead-stream arm while the pool's
\* mailbox takes no message
ReaderRemoveSendFails(s) ==
    /\ ~MailboxAccepts
    /\ \E k \in ErrorKinds :
          ReadArm(ReadError(k)) = "dead" /\ ReaderRead(s, ReadError(k))

\* the dispatcher refuses an InboundClientData of the reader of s
ReaderIbcdSendFails(s) ==
    \/ take_chunk(discBuf[s]).some /\ ReaderWrangle(s, FALSE)
    \/ ReaderSendTerminal(s, FALSE)

\* the pool finishes the handler of a TransmitDataMsg whose write fails with
\* a dead-stream kind while the pool's mailbox takes no message
WriterRemoveSendFails ==
    /\ ~poolPanicked
    /\ current.type = "Transmit"
    /\ current.endpoint = "Socket"
    /\ current.socket_addr \in DOMAIN stream_writers
    /\ current' = NoMsg
    /\ ~MailboxAccepts
    /\ NewOps(stream_writers[current.socket_addr])[1].outcome = "dead"

\* C21: once the pool is bound its mailbox takes a message only while it
\* holds fewer than NODE_MAILBOX_CAPACITY; a reader whose RemoveStreamMsg is
\* not taken panics with nothing sent, no shutdown and no terminal message;
\* a reader whose InboundClientData is refused panics with nothing sent; a
\* panicked reader does nothing more; and a writer whose RemoveStreamMsg is
\* not taken panics the pool handler after its own shutdown, with nothing
\* logged and no shutdown by the handler.
C21_FailedSendIsFatal ==
    /\ [][bound /\ Len(mailbox') > Len(mailbox)
            => Len(mailbox) < NODE_MAILBOX_CAPACITY]_vars
    /\ [][\A s \in Streams :
            ReaderRemoveSendFails(s)
              => /\ pc'[s] = "panicked"
                 /\ mailbox' = mailbox
                 /\ removed' = removed
                 /\ ibcd' = ibcd]_vars
    /\ [][\A s \in Streams :
            ReaderIbcdSendFails(s)
              => pc'[s] = "panicked" /\ ibcd' = ibcd /\ mailbox' = mailbox]_vars
    /\ [][\A s \in Streams :
            pc[s] = "panicked"
              => /\ pc'[s] = "panicked"
                 /\ readLog'[s] = readLog[s]
                 /\ ibcd'[s] = ibcd[s]
                 /\ removed'[s] = removed[s]]_vars
    /\ [][WriterRemoveSendFails
            => /\ poolPanicked'
               /\ mailbox' = mailbox
               /\ errorLog' = errorLog
               /\ Len(NewOps(stream_writers[current.socket_addr])) = 2
               /\ NewOps(stream_writers[current.socket_addr])[2] = ShutdownOp]_vars

\* a reader's read failed with a dead-stream kind while the bound pool's
\* mailbox was full: the thread panicked before shutdown and terminal
\* message
C21_Witness ==
    \E s \in Streams :
        /\ pc[s] = "panicked"
        /\ reader[s].factories = 1
        /\ received[s] = <<>>
        /\ readLog[s] = <<SetReadTimeoutOp, ReadOp>>
        /\ removed[s] = <<>>
        /\ ibcd[s] = <<>>
        /\ bound
        /\ ~poolPanicked
        /\ Len(mailbox) = NODE_MAILBOX_CAPACITY


(***************************************************************************)
(* C22                                                                     *)
(***************************************************************************)
\* C22: of the eighteen kinds of I/O error, indicates_dead_stream is true
\* for BrokenPipe, ConnectionRefused, ConnectionReset, ConnectionAborted and
\* TimedOut and false for the thirteen others, and a write that fails is
\* told apart as dead by exactly these five, in every state with the
\* writes made so far.
C22_DeadStreamKinds ==
    /\ \A s \in Streams : \A i \in 1 .. Len(writeLog[s]) :
          writeLog[s][i].op = "write"
            => writeLog[s][i].outcome \in {WriteOutcome(r) : r \in WriteResults}
    /\ ErrorKinds =
          {"BrokenPipe", "ConnectionRefused", "ConnectionReset",
           "ConnectionAborted", "TimedOut"}
          \cup {"NotFound", "PermissionDenied", "NotConnected", "AddrInUse",
                "AddrNotAvailable", "AlreadyExists", "WouldBlock",
                "InvalidInput", "InvalidData", "WriteZero", "Interrupted",
                "Other", "UnexpectedEof"}
    /\ \A k \in {"BrokenPipe", "ConnectionRefused", "ConnectionReset",
                 "ConnectionAborted", "TimedOut"} :
          indicates_dead_stream(k) /\ WriteOutcome(ReadError(k)) = "dead"
    /\ \A k \in {"NotFound", "PermissionDenied", "NotConnected", "AddrInUse",
                 "AddrNotAvailable", "AlreadyExists", "WouldBlock",
                 "InvalidInput", "InvalidData", "WriteZero", "Interrupted",
                 "Other", "UnexpectedEof"} :
          ~indicates_dead_stream(k) /\ WriteOutcome(ReadError(k)) = "error"

\* the classifier has been applied to a failed write and to a failed read
\* of one stream and called both dead
C22_Witness ==
    \E s \in Streams :
        /\ writeLog[s] # <<>>
        /\ writeLog[s][1].op = "write"
        /\ writeLog[s][1].outcome = "dead"
        /\ removed[s] # <<>>


(***************************************************************************)
(* C23                                                                     *)
(***************************************************************************)
\* the shutdown calls the read stream of s has seen
ReaderShutdowns(s) == SelectSeq(readLog[s], LAMBDA o : o.op = "shutdown")

\* C23: a read error that the reader takes as a dead stream is answered in
\* this order: the RemoveStreamMsg is sent first (or the thread panics on
\* the send), then shutdown (Both) is called, once and as the last operation
\* on the stream, then the InboundClientData with last_data = true is sent,
\* then the loop is left.  From the shutdown the reader goes to that send
\* whether the shutdown succeeded or failed; a reader that has returned
\* has done all three.
C23_DeadArmOrder ==
    /\ [](\A s \in Streams :
            /\ Len(ReaderShutdowns(s)) <= 1
            /\ (ReaderShutdowns(s) # <<>>
                  => /\ readLog[s][Len(readLog[s])].op = "shutdown"
                     /\ readLog[s][Len(readLog[s])].how = "Both"
                     /\ removed[s] # <<>>)
            /\ (pc[s] = "shutdown"
                  => /\ removed[s] # <<>>
                     /\ ReaderShutdowns(s) = <<>>
                     /\ TerminalCount(s) = 0)
            /\ (pc[s] = "terminal"
                  => Len(ReaderShutdowns(s)) = 1 /\ TerminalCount(s) = 0)
            /\ (TerminalCount(s) > 0 => Len(ReaderShutdowns(s)) = 1)
            /\ (pc[s] = "done"
                  => /\ removed[s] # <<>>
                     /\ Len(ReaderShutdowns(s)) = 1
                     /\ TerminalCount(s) = 1))
    /\ [][\A s \in Streams :
            /\ \A k \in ErrorKinds :
                  ReaderRead(s, ReadError(k)) /\ ReadArm(ReadError(k)) = "dead"
                    => \/ /\ pc'[s] = "shutdown"
                          /\ removed'[s] = <<reader[s].stream_key>>
                          /\ mailbox' = Append(mailbox,
                                RemoveMsg(reader[s].stream_key, "reader", s))
                          /\ ibcd'[s] = ibcd[s]
                       \/ pc'[s] = "panicked"
            /\ (removed'[s] # removed[s]
                  => pc[s] = "reading" /\ pc'[s] = "shutdown")
            /\ (pc[s] = "shutdown" => pc'[s] \in {"shutdown", "terminal"})
            /\ (pc[s] = "terminal"
                  => pc'[s] \in {"terminal", "done", "panicked"})
            /\ (pc'[s] = "done" /\ pc[s] # "done" => pc[s] = "terminal")]_vars

\* the shutdown failed and the terminal message was sent all the same
C23_Witness ==
    \E s \in Streams :
        /\ pc[s] = "done"
        /\ ReaderShutdowns(s) = <<ReaderShutdownOp(FALSE)>>
        /\ removed[s] = <<reader[s].stream_key>>
        /\ TerminalCount(s) = 1


(***************************************************************************)
(* C24                                                                     *)
(***************************************************************************)
HandlesRegisteredTransmit ==
    /\ ~poolPanicked
    /\ current.type = "Transmit"
    /\ current.endpoint = "Socket"
    /\ current.socket_addr \in DOMAIN stream_writers
    /\ current' = NoMsg

CannotTransmitLine(msg) ==
    [line |-> "cannot_transmit", logger |-> msg.socket_addr, len |-> Len(msg.data)]

\* C24: handling a TransmitDataMsg for a registered address writes the data
\* once on the writer stored there and leaves the map as it was.  When the
\* write failed with a dead-stream kind the writer shuts its stream down
\* and then sends one RemoveStreamMsg for its own stream_key (or the pool
\* panics on that send); when the write succeeded or failed with another
\* kind, nothing is sent, the pool does not panic and the only shutdown is
\* the handler's own for last_data = true.  Every failed write that does
\* not end in the panic logs its line and returns the error of the write;
\* a successful one logs nothing.
C24_RemoveIffDeadWrite ==
    [][HandlesRegisteredTransmit =>
         LET a == current.socket_addr
             w == stream_writers[a]
             ops == NewOps(w)
         IN  /\ stream_writers' = stream_writers
             /\ \A v \in Streams \ {w} : writeLog'[v] = writeLog[v]
             /\ Len(ops) >= 1
             /\ ops[1].op = "write"
             /\ ops[1].data = current.data
             /\ IF ops[1].outcome = "dead"
                THEN /\ Len(ops) >= 2
                     /\ ops[2] = ShutdownOp
                     /\ \/ /\ mailbox' = Append(mailbox, RemoveMsg(a, "writer", w))
                           /\ ~poolPanicked'
                        \/ /\ ~MailboxAccepts
                           /\ mailbox' = mailbox
                           /\ poolPanicked'
                ELSE /\ mailbox' = mailbox
                     /\ ~poolPanicked'
                     /\ ops = <<ops[1]>> \o LastDataOps(current)
             /\ IF ops[1].outcome = "ok"
                THEN errorLog' = errorLog
                ELSE poolPanicked' \/ errorLog' = Append(errorLog, CannotTransmitLine(current))
             /\ \A r \in WriteResults : \A room \in BOOLEAN :
                  LET t == WriterTransmit(w, a, current.data, r, room)
                  IN  /\ t.removes # <<>> <=>
                           (~r.ok /\ indicates_dead_stream(r.kind) /\ room)
                      /\ t.panics <=>
                           (~r.ok /\ indicates_dead_stream(r.kind) /\ ~room)
                      /\ ~t.panics => t.returns = <<r>>]_vars

\* a write failed with another kind, the next Transmit was written to the
\* same writer and failed with a dead-stream kind: shutdown, then the
\* writer's RemoveStreamMsg
C24_Witness ==
    \E w \in Streams : \E a \in DOMAIN stream_writers :
        /\ stream_writers[a] = w
        /\ Len(writeLog[w]) = 3
        /\ writeLog[w][1].op = "write" /\ writeLog[w][1].outcome = "error"
        /\ writeLog[w][2].op = "write" /\ writeLog[w][2].outcome = "dead"
        /\ writeLog[w][3] = ShutdownOp
        /\ mailbox = <<RemoveMsg(a, "writer", w)>>
        /\ Len(errorLog) = 2
        /\ ~poolPanicked


(***************************************************************************)
(* C25                                                                     *)
(***************************************************************************)
EmptyRead == [ok |-> TRUE, data |-> <<>>]

\* the read results after which handle_traffic only sleeps
QuietReads == {EmptyRead, ReadError("WouldBlock")}

\* the reader of s is running and its stream has so far yielded nothing but
\* reads of 0 bytes and timeout-like errors
OnlyQuietSoFar(s) ==
    /\ pc[s] \notin {"none", "dropped", "spawned", "panicked"}
    /\ received[s] = <<>>
    /\ warnings[s] = 0
    /\ removed[s] = <<>>

\* C25: a read of 0 bytes and a read that fails with WouldBlock send nothing
\* to the pool or the dispatcher, give the discriminator nothing, log no
\* warning, call no shutdown and leave the reader at its next read; as long
\* as its stream has yielded only such results the reader is in its loop
\* and has sent nothing.  A reader is past its loop only after a read error
\* it took for a dead stream, whose RemoveStreamMsg it has sent.
C25_QuietReadsKeepTheReaderReading ==
    /\ [][\A s \in Streams : \A r \in QuietReads :
            ReaderRead(s, r)
              => /\ mailbox' = mailbox
                 /\ removed' = removed
                 /\ ibcd' = ibcd
                 /\ discBuf' = discBuf
                 /\ received' = received
                 /\ warnings' = warnings
                 /\ readLog'[s] = Append(readLog[s], ReadOp)
                 /\ pc'[s] = "reading"]_vars
    /\ [](\A s \in Streams :
            /\ (OnlyQuietSoFar(s)
                  => /\ pc[s] = "reading"
                     /\ ibcd[s] = <<>>
                     /\ discBuf[s] = <<>>
                     /\ ReaderShutdowns(s) = <<>>)
            /\ (pc[s] \in {"shutdown", "terminal", "done"}
                  => removed[s] = <<reader[s].stream_key>>))
    /\ [][\A s \in Streams :
            pc[s] = "reading" /\ pc'[s] \in {"shutdown", "terminal", "done"}
              => /\ pc'[s] = "shutdown"
                 /\ \E k \in ErrorKinds :
                      /\ indicates_dead_stream(k)
                      /\ ReaderRead(s, ReadError(k))]_vars

\* three reads, each of 0 bytes or timed out, and the reader is still at
\* its read with nothing sent
C25_Witness ==
    \E s \in Streams :
        /\ OnlyQuietSoFar(s)
        /\ ReadCount(s) = ReaderReads
        /\ pc[s] = "reading"
        /\ ibcd[s] = <<>>
        /\ mailbox = <<>>


(***************************************************************************)
(* C26                                                                     *)
(***************************************************************************)
\* the pool spawns the reader of the AddStreamMsg in its hand
SpawnsReader ==
    /\ HandlesAdd
    /\ pc'[current.stream] = "spawned"
    /\ pc[current.stream] # "spawned"

\* C26: a reader is spawned with the peer address and the origin_port of
\* its AddStreamMsg and keeps them; every InboundClientData it sends
\* carries them as socket_addr and origin_port; one with last_data = true
\* has no data and the component ProxyServer; the ones sent from
\* wrangle_discriminators are the chunk the discriminator handed out, with
\* its component, its data and last_data = false, and only the dead-stream
\* arm sends one with last_data = true.
C26_TerminalAndChunkMessages ==
    /\ [](\A s \in Streams : \A i \in 1 .. Len(ibcd[s]) :
            LET m == ibcd[s][i]
            IN  /\ m.socket_addr = reader[s].stream_key
                /\ m.origin_port = reader[s].origin_port
                /\ (m.last_data
                      => m.data = <<>> /\ m.component = "ProxyServer")
                /\ (~m.last_data => m.data # <<>>))
    /\ [][SpawnsReader
            => /\ reader'[current.stream].stream_key = current.peer_addr
               /\ reader'[current.stream].origin_port = current.origin_port]_vars
    /\ [][\A s \in Streams :
            /\ (pc[s] \notin {"none", "dropped"} => reader'[s] = reader[s])
            /\ (ibcd'[s] # ibcd[s]
                  => \E m \in {ibcd'[s][Len(ibcd'[s])]} :
                       /\ ibcd'[s] = Append(ibcd[s], m)
                       /\ pc[s] \in {"wrangling", "terminal"}
                       /\ (pc[s] = "wrangling"
                             => /\ ~m.last_data
                                /\ take_chunk(discBuf[s]).some
                                /\ m.data = take_chunk(discBuf[s]).chunk
                                /\ m.component = take_chunk(discBuf[s]).component)
                       /\ (pc[s] = "terminal" => m.last_data))]_vars

\* a reader added with origin_port Some(8081) sent a Hopper chunk, then a
\* ProxyServer chunk, then its terminal message
C26_Witness ==
    \E s \in Streams :
        /\ reader[s].origin_port = "Some8081"
        /\ Len(ibcd[s]) = 3
        /\ ibcd[s][1].component = "Hopper" /\ ~ibcd[s][1].last_data
        /\ ibcd[s][1].origin_port = "Some8081"
        /\ ~ibcd[s][2].last_data
        /\ ibcd[s][3].last_data
        /\ ibcd[s][3].origin_port = "Some8081"
        /\ ibcd[s][3].data = <<>>


(***************************************************************************)
(* C27                                                                     *)
(***************************************************************************)
\* the pool, bound, handles an AddStreamMsg without discriminator factories
\* and both try_clone calls succeed
HandlesAddWithoutFactories ==
    /\ HandlesAdd
    /\ bound
    /\ current.discriminator_factories = 0
    /\ errorLog' = errorLog

\* the pool writes a TransmitDataMsg to a writer whose reader was given no
\* discriminator factories
HandlesTransmitToReaderless ==
    /\ HandlesRegisteredTransmit
    /\ reader[stream_writers[current.socket_addr]].factories = 0

\* C27: an AddStreamMsg without discriminator factories whose clones
\* succeed registers its writer under the peer address and spawns the
\* reader thread without a panic of the pool; the panic of that thread in
\* StreamReaderReal::new changes nothing of the pool, map included; and a
\* TransmitDataMsg for the address is then written to that writer, which
\* is shut down after it when last_data = true.
C27_NoFactoriesStillRegistersTheWriter ==
    /\ [][HandlesAddWithoutFactories
            => /\ ~poolPanicked'
               /\ current.peer_addr \in DOMAIN stream_writers'
               /\ stream_writers'[current.peer_addr] = current.stream
               /\ pc'[current.stream] = "spawned"]_vars
    /\ [][\A s \in Streams :
            pc[s] = "spawned" /\ pc'[s] = "panicked"
              => /\ reader[s].factories = 0
                 /\ stream_writers' = stream_writers
                 /\ poolPanicked' = poolPanicked
                 /\ mailbox' = mailbox
                 /\ current' = current
                 /\ errorLog' = errorLog
                 /\ writeLog' = writeLog]_vars
    /\ [][HandlesTransmitToReaderless
            => LET w == stream_writers[current.socket_addr]
                   ops == NewOps(w)
               IN  /\ Len(ops) >= 1
                   /\ ops[1].op = "write"
                   /\ ops[1].data = current.data
                   /\ errorLog' # Append(errorLog, NonexistentLog(current)[1])
                   /\ (current.last_data /\ ~poolPanicked'
                         => ops[Len(ops)] = ShutdownOp)
                   /\ (ops[1].outcome = "ok"
                         => ~poolPanicked' /\ ops = <<ops[1]>> \o LastDataOps(current))]_vars

\* the reader's thread panicked for want of factories, the writer of the
\* same Add is registered and has taken a write and the shutdown of a
\* Transmit with last_data = true
C27_Witness ==
    \E s \in Streams : \E a \in DOMAIN stream_writers :
        /\ stream_writers[a] = s
        /\ reader[s].factories = 0
        /\ pc[s] = "panicked"
        /\ Len(writeLog[s]) = 2
        /\ writeLog[s][1].op = "write" /\ writeLog[s][1].outcome = "ok"
        /\ writeLog[s][2] = ShutdownOp
        /\ errorLog = <<>>
        /\ ~poolPanicked


(***************************************************************************)
(* C28                                                                     *)
(***************************************************************************)
\* the handler has shut the writer of w down after a write that succeeded
ShutDownAfterWrite(w) ==
    \E i \in 2 .. Len(writeLog[w]) :
        /\ writeLog[w][i] = ShutdownOp
        /\ writeLog[w][i - 1].op = "write"
        /\ writeLog[w][i - 1].outcome = "ok"

\* the pool handles a RemoveStreamMsg for address a
HandlesRemoveOf(a) == HandlesRemove /\ current.socket_addr = a

\* the pool handles an AddStreamMsg for peer address a
HandlesAddOf(a) == HandlesAdd /\ current.peer_addr = a

\* handling a TransmitDataMsg, last_data = true and the write successful,
\* leaves the map as it was
LastTransmitKeepsTheMap ==
    HandlesLastTransmit
      /\ NewOps(stream_writers[current.socket_addr])[1].outcome = "ok"
      => /\ stream_writers' = stream_writers
         /\ mailbox' = mailbox
         /\ ~poolPanicked'

\* a TransmitDataMsg for the address of a writer that was shut down is
\* written to that writer, and no "nonexistent stream" is logged
ShutDownWriterStillWrittenTo ==
    HandlesRegisteredTransmit
      /\ ShutDownAfterWrite(stream_writers[current.socket_addr])
      => LET w == stream_writers[current.socket_addr]
         IN  /\ Len(NewOps(w)) >= 1
             /\ NewOps(w)[1].op = "write"
             /\ NewOps(w)[1].data = current.data
             /\ \A i \in 1 .. Len(errorLog') :
                   i > Len(errorLog) => errorLog'[i].line # "nonexistent_stream"

\* C28 as stated: a Transmit with last_data = true and a successful write
\* leaves the map unchanged, a writer shut down this way stays registered
\* under its address in every step that does not handle a RemoveStreamMsg
\* for the address, and a Transmit handled meanwhile is written to it.
C28_ShutDownWriterStaysUntilRemove ==
    /\ [][LastTransmitKeepsTheMap]_vars
    /\ [][ShutDownWriterStillWrittenTo]_vars
    /\ [][\A a \in DOMAIN stream_writers :
            ShutDownAfterWrite(stream_writers[a]) /\ ~HandlesRemoveOf(a)
              => /\ a \in DOMAIN stream_writers'
                 /\ stream_writers'[a] = stream_writers[a]]_vars

\* C28, amended: a Transmit with last_data = true and a successful write
\* leaves the map unchanged; the address of a writer shut down this way
\* stays in the map in every step that does not handle a RemoveStreamMsg
\* for it, and the writer under it stays the same in every step that
\* handles neither such a RemoveStreamMsg nor an AddStreamMsg for the same
\* peer address, which puts its own writer in the place; a Transmit
\* handled meanwhile is written to the shut-down writer and is not reported
\* as "nonexistent stream".
C28_ShutDownWriterStaysUntilRemoveOrAdd ==
    /\ [][LastTransmitKeepsTheMap]_vars
    /\ [][ShutDownWriterStillWrittenTo]_vars
    /\ [][\A a \in DOMAIN stream_writers :
            ShutDownAfterWrite(stream_writers[a]) /\ ~HandlesRemoveOf(a)
              => /\ a \in DOMAIN stream_writers'
                 /\ \/ stream_writers'[a] = stream_writers[a]
                    \/ HandlesAddOf(a) /\ stream_writers'[a] = current.stream]_vars

\* a writer shut down after a successful write with last_data = true is
\* still registered and has been written to again
C28_Witness ==
    \E a \in DOMAIN stream_writers :
        LET w == stream_writers[a]
        IN  /\ Len(writeLog[w]) = 3
            /\ writeLog[w][1].op = "write" /\ writeLog[w][1].outcome = "ok"
            /\ writeLog[w][2] = ShutdownOp
            /\ writeLog[w][3].op = "write"
            /\ errorLog = <<>>
            /\ current = NoMsg


(***************************************************************************)
(* C29                                                                     *)
(***************************************************************************)
\* the writer of stream s is in the map
WriterRegistered(s) ==
    \E a \in DOMAIN stream_writers : stream_writers[a] = s

\* C29: the step that spawns a reader has the writer of the same
\* AddStreamMsg in the map, under the reader's stream_key; a reader changes
\* nothing of the pool but its mailbox, to which it appends its
\* RemoveStreamMsg, the map changing only in the pool's handlers of
\* AddStreamMsg and RemoveStreamMsg; the writer of a stream comes into the
\* map only in the step that handles its AddStreamMsg; and once the pool has
\* handled the RemoveStreamMsg of a reader, the writer of that reader's
\* AddStreamMsg is not in the map, then or later.
C29_ReaderRemoveComesAfterTheInsert ==
    /\ [][\A s \in Streams :
            pc'[s] = "spawned" /\ pc[s] # "spawned"
              => /\ HandlesAdd /\ current.stream = s
                 /\ reader'[s].stream_key \in DOMAIN stream_writers'
                 /\ stream_writers'[reader'[s].stream_key] = s
                 /\ removed[s] = <<>>
                 /\ ~ReaderRemovePending(s)]_vars
    /\ [][\A s \in Streams :
            removed'[s] # removed[s]
              => /\ mailbox' = Append(mailbox,
                       RemoveMsg(reader[s].stream_key, "reader", s))
                 /\ stream_writers' = stream_writers
                 /\ current' = current
                 /\ pc[s] = "reading"]_vars
    /\ [][stream_writers' # stream_writers
            => (HandlesAdd \/ HandlesRemove) /\ removed' = removed]_vars
    /\ [][\A s \in Streams :
            WriterRegistered(s)' /\ ~WriterRegistered(s)
              => HandlesAdd /\ current.stream = s /\ pc[s] = "none"]_vars
    /\ [](\A s \in Streams :
            /\ (removed[s] # <<>> => pc[s] \notin {"none", "dropped", "spawned"})
            /\ (ReaderRemoveHandled(s) => ~WriterRegistered(s)))

\* a reader has returned and its RemoveStreamMsg has been handled: the
\* writer of its Add is gone from the map, the pool alive
C29_Witness ==
    \E s \in Streams :
        /\ pc[s] = "done"
        /\ removed[s] = <<reader[s].stream_key>>
        /\ ~ReaderRemovePending(s)
        /\ ~WriterRegistered(s)
        /\ mailbox = <<>>
        /\ current = NoMsg
        /\ ~poolPanicked

====
